---------------------------- MODULE Spec2Model ----------------------------
(***************************************************************************)
(* A model of PetMatch (src/app.py): a Streamlit page that searches the    *)
(* Petfinder directory, pages through the results, shows a pet's detail    *)
(* record and keeps a favorites list in st.session_state.                  *)
(*                                                                         *)
(* One step of the model is one run of the script (main(), line 465): the  *)
(* run a widget event triggers, or the run st.rerun() asks for.  The       *)
(* upstream API's answers are inputs of the run, drawn with \E.            *)
(*                                                                         *)
(* Python's None is "None" for a token or a secret, 0 for the selected pet *)
(* id (both are falsy in Python, as the code's truth tests need) and       *)
(* cached = FALSE for search_results.                                      *)
(***************************************************************************)
EXTENDS Integers, Sequences, FiniteSets, TLC

VARIABLES
    \* the environment
    now,              \* time.time(), in seconds
    api_key,          \* PETFINDER_API_KEY as lines 81 reads it, or None
    api_secret,       \* PETFINDER_API_SECRET as line 82 reads it, or None
    \* st.session_state (lines 61-72)
    access_token,
    token_expires,
    search_results,
    selected_pet,
    page,
    favorites,
    \* Streamlit's runtime
    page_slider,      \* the widget state of st.slider("Page", ...) (line 563)
    rerun_pending,    \* st.rerun() was called: the next step is that run
    \* what the last complete run put on the screen
    view,
    \* history, for stating the properties
    token_issued_at,  \* when the cached token was issued
    token_expires_in, \* the expires_in it was issued with
    call,             \* the last direct call of a client function
    last,             \* the last user event and what its run did
    prior,            \* the list view a selection was made from
    \* inputs and outputs of the pure functions
    form,
    params,
    pet_in,
    messages,
    \* a record handed to the Result Presenter, and what it rendered
    description,      \* pet['description']
    about,            \* the description as a card or the detail view shows it
    record,           \* which optional sub-fields the PetRecord carries
    outcome           \* what rendering that record came to

vars == <<now, api_key, api_secret, access_token, token_expires,
          search_results, selected_pet, page, favorites, page_slider,
          rerun_pending, view, token_issued_at, token_expires_in, call,
          last, prior, form, params, pet_in, messages,
          description, about, record, outcome>>

envVars == <<now, api_key, api_secret>>
credVars == <<access_token, token_expires, token_issued_at, token_expires_in>>
sessionVars == <<search_results, selected_pet, page, favorites, page_slider,
                 rerun_pending, view, last, prior>>
pureVars == <<form, params, pet_in, messages>>
renderVars == <<description, about, record, outcome>>

None == "None"

-----------------------------------------------------------------------------
(* Bounds of the model *)

\* the clock runs from 0 to MaxTime in steps of TickSeconds
MaxTime == 180
TickSeconds == 60

\* the values an upstream token response may carry
Tokens == {"tokA", "tokB"}
ExpiresIn == {60, 180}

-----------------------------------------------------------------------------
(* Credential Manager: get_access_token *)

\* the safety buffer line 101 subtracts
Buffer == 60

Cred == [access_token |-> access_token, token_expires |-> token_expires,
         issued_at |-> token_issued_at, expires_in |-> token_expires_in]

\* answers of POST /oauth2/token: a RequestException, or a token
TokenFailure == [ok |-> FALSE, access_token |-> None, expires_in |-> 0]
TokenResponses ==
    {TokenFailure} \cup
    {[ok |-> TRUE, access_token |-> tk, expires_in |-> e] :
        tk \in Tokens, e \in ExpiresIn}

\* line 77: the cached token is still valid
TokenValid(c, t) == c.access_token # None /\ t < c.token_expires

\* line 84: both secrets are there
SecretsConfigured == api_key # None /\ api_secret # None

\* a get_access_token whose validity test includes the instant of expiry
get_access_token_LateExpiry(c, t, o) ==
    IF c.access_token # None /\ t <= c.token_expires
    THEN [cred |-> c, ret |-> c.access_token, token_requests |-> 0]
    ELSE IF ~SecretsConfigured
    THEN [cred |-> c, ret |-> None, token_requests |-> 0]
    ELSE IF o.ok
    THEN [cred |-> [access_token |-> o.access_token,
                    token_expires |-> t + o.expires_in - Buffer,
                    issued_at |-> t, expires_in |-> o.expires_in],
          ret |-> o.access_token, token_requests |-> 1]
    ELSE [cred |-> c, ret |-> None, token_requests |-> 1]

\* get_access_token at time t, the token endpoint answering o if it is asked
get_access_token(c, t, o) ==
    IF TokenValid(c, t)
    THEN [cred |-> c, ret |-> c.access_token, token_requests |-> 0]
    ELSE IF ~SecretsConfigured
    THEN [cred |-> c, ret |-> None, token_requests |-> 0]
    ELSE IF o.ok
    THEN [cred |-> [access_token |-> o.access_token,
                    token_expires |-> t + o.expires_in - Buffer,
                    issued_at |-> t, expires_in |-> o.expires_in],
          ret |-> o.access_token, token_requests |-> 1]
    ELSE [cred |-> c, ret |-> None, token_requests |-> 1]

\* the answers worth drawing: one when the endpoint is not asked
TokenAnswers(c, t) ==
    IF TokenValid(c, t) \/ ~SecretsConfigured
    THEN {TokenFailure} ELSE TokenResponses

SetCred(c) ==
    /\ access_token' = c.access_token
    /\ token_expires' = c.token_expires
    /\ token_issued_at' = c.issued_at
    /\ token_expires_in' = c.expires_in

NoCall == [fn |-> "none", ret |-> None, token_requests |-> 0,
           data_requests |-> 0]

-----------------------------------------------------------------------------
(* Initial values *)

InitCred ==
    /\ access_token = None
    /\ token_expires = 0
    /\ token_issued_at = 0
    /\ token_expires_in = 0

InitEnv ==
    /\ now = 0
    /\ api_key \in {None, "key"}
    /\ api_secret \in {None, "secret"}


-----------------------------------------------------------------------------
(* Session state and the screen *)

\* st.session_state.search_results = None (line 66)
NoResults == [cached |-> FALSE, animals |-> <<>>]

\* no "Page" slider is registered
NoSlider == [live |-> FALSE, max |-> 0, def |-> 0, val |-> 0]

\* the first run's screen: the form, no results, no favorites
FirstView == [tab1 |-> "list", msg |-> "none", results_shown |-> FALSE,
              total_pages |-> 0, cards |-> <<>>, fav1 |-> "none",
              tab2 |-> "empty", fav2 |-> "none", id1 |-> 0, id2 |-> 0]

NoEvent == [ev |-> "none", tab |-> 0, id |-> 0, fired |-> FALSE,
            stopped |-> FALSE, search |-> "none", returned |-> <<>>]

NoPrior == [search_results |-> NoResults, page |-> 0, total_pages |-> 0,
            cards |-> <<>>]

InitSession ==
    /\ search_results = NoResults
    /\ selected_pet = 0
    /\ page = 1
    /\ favorites = <<>>
    /\ page_slider = NoSlider
    /\ rerun_pending = FALSE
    /\ view = FirstView
    /\ last = NoEvent
    /\ prior = NoPrior
    /\ call = NoCall

NoForm == [animal_type |-> <<>>, location |-> "", distance |-> 0,
           age |-> "", size |-> "", gender |-> "",
           good_with_children |-> FALSE, good_with_dogs |-> FALSE,
           good_with_cats |-> FALSE, house_trained |-> FALSE,
           special_needs |-> FALSE]

NoParams == [built |-> FALSE, query |-> <<>>]

NoPetIn == [environment |-> <<>>, attributes |-> <<>>]

NoMessages == [done |-> FALSE, lines |-> <<>>]

InitPure ==
    /\ form = NoForm
    /\ params = NoParams
    /\ pet_in = NoPetIn
    /\ messages = NoMessages

NoDescription == [given |-> "null", text |-> << >>]
NoAbout == [done |-> FALSE, where |-> "none", rendered |-> FALSE,
            text |-> << >>, marker |-> FALSE]
NoRecord == [given |-> FALSE]
NoOutcome == [done |-> FALSE, by |-> "none", raised |-> "none",
              at |-> "none"]

InitRender ==
    /\ description = NoDescription
    /\ about = NoAbout
    /\ record = NoRecord
    /\ outcome = NoOutcome

-----------------------------------------------------------------------------
(* The clock, and direct calls of the Credential Manager *)

Tick ==
    /\ now + TickSeconds <= MaxTime
    /\ now' = now + TickSeconds
    /\ call' = NoCall
    /\ UNCHANGED <<api_key, api_secret>>
    /\ UNCHANGED credVars
    /\ UNCHANGED sessionVars
    /\ UNCHANGED pureVars
    /\ UNCHANGED renderVars

CallGetAccessToken ==
    \E o \in TokenAnswers(Cred, now) :
        LET r == get_access_token(Cred, now, o) IN
        /\ SetCred(r.cred)
        /\ call' = [fn |-> "get_access_token", ret |-> r.ret,
                    token_requests |-> r.token_requests,
                    data_requests |-> 0]
        /\ UNCHANGED envVars
        /\ UNCHANGED sessionVars
        /\ UNCHANGED pureVars
        /\ UNCHANGED renderVars

InitToken == InitEnv /\ InitCred /\ InitSession /\ InitPure /\ InitRender

NextToken == Tick \/ CallGetAccessToken

SpecToken == InitToken /\ [][NextToken]_vars


-----------------------------------------------------------------------------
(* C1, C2: the token cache *)

\* C1: a call of get_access_token with a cached token and now < token_expires
\* returns that very token, leaves it cached and asks the token endpoint
\* nothing; a call with no cached token, or with the expiry reached, and both
\* secrets configured asks the token endpoint exactly once.
C1_TokenCaching ==
    [][call'.fn = "get_access_token" =>
        /\ (access_token # None /\ now < token_expires) =>
              /\ call'.ret = access_token
              /\ access_token' = access_token
              /\ call'.token_requests = 0
        /\ ((access_token = None \/ now >= token_expires)
               /\ api_key # None /\ api_secret # None) =>
              call'.token_requests = 1]_vars

\* a cached token was handed out, without a request, after it was issued
C1_Witness ==
    /\ call.fn = "get_access_token"
    /\ call.ret # None
    /\ call.token_requests = 0
    /\ now > token_issued_at

\* C2: every call of get_access_token that returns a token returns it before
\* the token's expiry minus the 60-second margin: t < t0 + expires_in - 60,
\* the refreshing call included.
C2_NeverPastMargin ==
    (call.fn = "get_access_token" /\ call.ret # None) =>
        now < token_issued_at + token_expires_in - Buffer


-----------------------------------------------------------------------------
(* View Controller: the query the search form builds (lines 511-540) *)

\* a string whose characters the code looks at is a sequence of characters
Dog == <<"D","o","g">>
Cat == <<"C","a","t">>
Rabbit == <<"R","a","b","b","i","t">>
SmallAndFurry == <<"S","m","a","l","l"," ","&"," ","F","u","r","r","y">>
Horse == <<"H","o","r","s","e">>
Bird == <<"B","i","r","d">>
ScalesFinsAndOther ==
    <<"S","c","a","l","e","s",","," ","F","i","n","s"," ","&"," ",
      "O","t","h","e","r">>
Barnyard == <<"B","a","r","n","y","a","r","d">>

\* the options of the form's selects (lines 486, 494-501)
AnimalTypeOptions == {Dog, Cat, Rabbit, SmallAndFurry, Horse, Bird,
                      ScalesFinsAndOther, Barnyard}
DoesntMatter == "Doesn't Matter"
AgeOptions == {DoesntMatter, "Baby", "Young", "Adult", "Senior"}
SizeOptions == {DoesntMatter, "Small", "Medium", "Large", "XLarge"}
GenderOptions == {DoesntMatter, "Male", "Female"}

\* the inputs drawn for the free text and for the slider (10..500, default 50)
Locations == {"", "10001"}
Distances == {50, 500}

Forms == [animal_type : AnimalTypeOptions, location : Locations,
          distance : Distances, age : AgeOptions, size : SizeOptions,
          gender : GenderOptions, good_with_children : BOOLEAN,
          good_with_dogs : BOOLEAN, good_with_cats : BOOLEAN,
          house_trained : BOOLEAN, special_needs : BOOLEAN]

\* s.split(" ")[0]: the characters before the first space
FirstWord(s) ==
    LET spaces == {i \in 1..Len(s) : s[i] = " "} IN
    IF spaces = {} THEN s
    ELSE SubSeq(s, 1, (CHOOSE i \in spaces : \A j \in spaces : i <= j) - 1)

\* d[k] = v on a dict
Put(d, k, v) == [x \in (DOMAIN d) \cup {k} |-> IF x = k THEN v ELSE d[x]]

\* a BuildParams that always sends house_trained, as 0 or 1
BuildParams_FlagAlwaysSent(f) ==
    LET p0 == [type |-> FirstWord(f.animal_type), location |-> f.location,
               distance |-> f.distance, status |-> "adoptable",
               sort |-> "distance", limit |-> 100]
        p1 == IF f.age # DoesntMatter THEN Put(p0, "age", f.age) ELSE p0
        p2 == IF f.size # DoesntMatter THEN Put(p1, "size", f.size) ELSE p1
        p3 == IF f.gender # DoesntMatter
              THEN Put(p2, "gender", f.gender) ELSE p2
        p4 == IF f.good_with_children
              THEN Put(p3, "good_with_children", 1) ELSE p3
        p5 == IF f.good_with_dogs THEN Put(p4, "good_with_dogs", 1) ELSE p4
        p6 == IF f.good_with_cats THEN Put(p5, "good_with_cats", 1) ELSE p5
        p7 == Put(p6, "house_trained", IF f.house_trained THEN 1 ELSE 0)
        p8 == IF f.special_needs THEN Put(p7, "special_needs", 1) ELSE p7
    IN p8

\* lines 513-540: the params of a submitted form
BuildParams(f) ==
    LET p0 == [type |-> FirstWord(f.animal_type), location |-> f.location,
               distance |-> f.distance, status |-> "adoptable",
               sort |-> "distance", limit |-> 100]
        p1 == IF f.age # DoesntMatter THEN Put(p0, "age", f.age) ELSE p0
        p2 == IF f.size # DoesntMatter THEN Put(p1, "size", f.size) ELSE p1
        p3 == IF f.gender # DoesntMatter
              THEN Put(p2, "gender", f.gender) ELSE p2
        p4 == IF f.good_with_children
              THEN Put(p3, "good_with_children", 1) ELSE p3
        p5 == IF f.good_with_dogs THEN Put(p4, "good_with_dogs", 1) ELSE p4
        p6 == IF f.good_with_cats THEN Put(p5, "good_with_cats", 1) ELSE p5
        p7 == IF f.house_trained THEN Put(p6, "house_trained", 1) ELSE p6
        p8 == IF f.special_needs THEN Put(p7, "special_needs", 1) ELSE p7
    IN p8

\* the environment of the pure functions: one configuration
InitEnvFixed ==
    /\ now = 0
    /\ api_key = "key"
    /\ api_secret = "secret"

InitQuery ==
    /\ InitEnvFixed /\ InitCred /\ InitSession /\ InitRender
    /\ form \in Forms
    /\ params = NoParams
    /\ pet_in = NoPetIn
    /\ messages = NoMessages

\* the form is submitted: its query is built
BuildQuery ==
    /\ ~params.built
    /\ params' = [built |-> TRUE, query |-> BuildParams(form)]
    /\ UNCHANGED <<form, pet_in, messages, call>>
    /\ UNCHANGED renderVars
    /\ UNCHANGED envVars
    /\ UNCHANGED credVars
    /\ UNCHANGED sessionVars

SpecQuery == InitQuery /\ [][BuildQuery]_vars

\* C3: the query of a submitted form holds type, location, distance,
\* status = "adoptable", sort = "distance" and limit = 100; it holds age, size
\* or gender exactly when that select is not at "Doesn't Matter", with the
\* selected value; it holds a checkbox's key exactly when the checkbox is
\* ticked, with the value 1; Dog, 10001, distance 50 and nothing else set
\* gives exactly the six required keys.
C3_Selects == {"age", "size", "gender"}
C3_Checkboxes == {"good_with_children", "good_with_dogs", "good_with_cats",
                  "house_trained", "special_needs"}
C3_Required == {"type", "location", "distance", "status", "sort", "limit"}
C3_QueryConstruction ==
    params.built =>
        LET q == params.query IN
        /\ DOMAIN q = C3_Required
              \cup {k \in C3_Selects : form[k] # "Doesn't Matter"}
              \cup {k \in C3_Checkboxes : form[k]}
        /\ q["location"] = form.location
        /\ q["distance"] = form.distance
        /\ q["status"] = "adoptable"
        /\ q["sort"] = "distance"
        /\ q["limit"] = 100
        /\ \A k \in C3_Selects \cap DOMAIN q : q[k] = form[k]
        /\ \A k \in C3_Checkboxes \cap DOMAIN q : q[k] = 1
        /\ (/\ form.animal_type = <<"D","o","g">>
            /\ form.location = "10001"
            /\ form.distance = 50
            /\ \A k \in C3_Selects : form[k] = "Doesn't Matter"
            /\ \A k \in C3_Checkboxes : ~form[k])
           => q = [type |-> <<"D","o","g">>, location |-> "10001",
                   distance |-> 50, status |-> "adoptable",
                   sort |-> "distance", limit |-> 100]

\* a query was built from a form with a select set and a checkbox ticked
C3_Witness ==
    /\ params.built
    /\ form.age = "Young"
    /\ form.gender = "Doesn't Matter"
    /\ form.house_trained
    /\ ~form.special_needs
    /\ form.animal_type = SmallAndFurry


-----------------------------------------------------------------------------
(* Result Presenter: get_compatibility_message (lines 247-287) *)

\* a JSON flag is "true", "false" or "null"; a key may be missing
EnvKeys == {"children", "dogs", "cats"}
AttrKeys == {"special_needs", "house_trained", "shots_current",
             "spayed_neutered"}
EnvDicts == UNION {[D -> {"true", "false", "null"}] : D \in SUBSET EnvKeys}
\* the upstream's attribute flags are booleans
AttrDicts == UNION {[D -> {"true", "false"}] : D \in SUBSET AttrKeys}
Pets == [environment : EnvDicts, attributes : AttrDicts]

\* Python's truth value of a JSON flag
Truthy(v) == v = "true"

\* k in d and d[k]
HasTrue(d, k) == k \in DOMAIN d /\ Truthy(d[k])

\* lines 251-255, 258-262, 265-269: one environment flag
EnvMessage(env, k, good, bad) ==
    IF k \in DOMAIN env /\ env[k] # "null"
    THEN IF Truthy(env[k]) THEN <<good>> ELSE <<bad>>
    ELSE <<>>

\* an attribute block that reports house-training only when it is true
AttrMessages_NoNegative(attrs) ==
    IF DOMAIN attrs # {}
    THEN (IF HasTrue(attrs, "special_needs")
          THEN <<"warn: Has special needs">> ELSE <<>>)
         \o (IF HasTrue(attrs, "house_trained")
             THEN <<"yes: House-trained">> ELSE <<>>)
         \o (IF HasTrue(attrs, "shots_current")
             THEN <<"yes: Vaccinations up to date">> ELSE <<>>)
         \o (IF HasTrue(attrs, "spayed_neutered")
             THEN <<"yes: Spayed/neutered">> ELSE <<>>)
    ELSE <<>>

\* lines 272-285: the attribute flags (an empty dict is falsy, like None)
AttrMessages(attrs) ==
    IF DOMAIN attrs # {}
    THEN (IF HasTrue(attrs, "special_needs")
          THEN <<"warn: Has special needs">> ELSE <<>>)
         \o (IF HasTrue(attrs, "house_trained")
             THEN <<"yes: House-trained">>
             ELSE IF "house_trained" \in DOMAIN attrs
             THEN <<"no: Not house-trained">> ELSE <<>>)
         \o (IF HasTrue(attrs, "shots_current")
             THEN <<"yes: Vaccinations up to date">> ELSE <<>>)
         \o (IF HasTrue(attrs, "spayed_neutered")
             THEN <<"yes: Spayed/neutered">> ELSE <<>>)
    ELSE <<>>

\* the messages list, appended to in the code's order
get_compatibility_message(pet) ==
    EnvMessage(pet.environment, "children", "yes: Good with children",
               "no: Not recommended for homes with children")
    \o EnvMessage(pet.environment, "dogs", "yes: Good with dogs",
                  "no: Not recommended for homes with dogs")
    \o EnvMessage(pet.environment, "cats", "yes: Good with cats",
                  "no: Not recommended for homes with cats")
    \o AttrMessages(pet.attributes)

InitCompat ==
    /\ InitEnvFixed /\ InitCred /\ InitSession /\ InitRender
    /\ form = NoForm
    /\ params = NoParams
    /\ pet_in \in Pets
    /\ messages = NoMessages

\* the detail view derives a pet's compatibility lines (line 349)
DeriveCompatibility ==
    /\ ~messages.done
    /\ messages' = [done |-> TRUE, lines |-> get_compatibility_message(pet_in)]
    /\ UNCHANGED <<form, params, pet_in, call>>
    /\ UNCHANGED renderVars
    /\ UNCHANGED envVars
    /\ UNCHANGED credVars
    /\ UNCHANGED sessionVars

SpecCompat == InitCompat /\ [][DeriveCompatibility]_vars

\* C10: what each emitted line is about, and its tone
C10_Topic ==
    [m \in {"yes: Good with children",
            "no: Not recommended for homes with children"} |-> 1]
    @@ [m \in {"yes: Good with dogs",
               "no: Not recommended for homes with dogs"} |-> 2]
    @@ [m \in {"yes: Good with cats",
               "no: Not recommended for homes with cats"} |-> 3]
    @@ [m \in {"warn: Has special needs"} |-> 4]
    @@ [m \in {"yes: House-trained", "no: Not house-trained"} |-> 5]
    @@ [m \in {"yes: Vaccinations up to date"} |-> 6]
    @@ [m \in {"yes: Spayed/neutered"} |-> 7]

C10_Positive == {"yes: Good with children", "yes: Good with dogs",
                 "yes: Good with cats", "yes: House-trained",
                 "yes: Vaccinations up to date", "yes: Spayed/neutered"}
C10_Negative == {"no: Not recommended for homes with children",
                 "no: Not recommended for homes with dogs",
                 "no: Not recommended for homes with cats",
                 "no: Not house-trained"}
C10_Warning == {"warn: Has special needs"}

\* the lines about topic n, in order
C10_About(n) ==
    LET L == messages.lines IN
    {i \in 1..Len(L) : C10_Topic[L[i]] = n}

\* the number of lines about topic n that are in the set tone
C10_Count(n, tone) ==
    Cardinality({i \in C10_About(n) : messages.lines[i] \in tone})

C10_EnvKeyOf == <<"children", "dogs", "cats">>

\* C10: for children, dogs and cats: no line when the flag is null or
\* missing, one positive line when true, one negative line when false; a
\* warning line iff special_needs is true; a positive house-trained line iff
\* it is true, a negative one iff it is present and false, none when missing;
\* a positive line iff shots_current is true; a positive line iff
\* spayed_neutered is true; the lines come in the order children, dogs, cats,
\* special needs, house-trained, vaccination, spay/neuter.
C10_Compatibility ==
    messages.done =>
        LET L == messages.lines
            env == pet_in.environment
            attrs == pet_in.attributes
            IsTrue(d, k) == k \in DOMAIN d /\ d[k] = "true"
            IsFalse(d, k) == k \in DOMAIN d /\ d[k] = "false"
        IN
        /\ \A i \in 1..Len(L) : L[i] \in DOMAIN C10_Topic
        /\ \A i, j \in 1..Len(L) :
              i < j => C10_Topic[L[i]] < C10_Topic[L[j]]
        /\ \A n \in 1..3 :
              LET k == C10_EnvKeyOf[n] IN
              /\ C10_Count(n, C10_Positive) = (IF IsTrue(env, k) THEN 1 ELSE 0)
              /\ C10_Count(n, C10_Negative) = (IF IsFalse(env, k) THEN 1 ELSE 0)
              /\ C10_Count(n, C10_Warning) = 0
        /\ C10_Count(4, C10_Warning) =
              (IF IsTrue(attrs, "special_needs") THEN 1 ELSE 0)
        /\ C10_Count(5, C10_Positive) =
              (IF IsTrue(attrs, "house_trained") THEN 1 ELSE 0)
        /\ C10_Count(5, C10_Negative) =
              (IF IsFalse(attrs, "house_trained") THEN 1 ELSE 0)
        /\ C10_Count(6, C10_Positive) =
              (IF IsTrue(attrs, "shots_current") THEN 1 ELSE 0)
        /\ C10_Count(7, C10_Positive) =
              (IF IsTrue(attrs, "spayed_neutered") THEN 1 ELSE 0)
        /\ (IsFalse(env, "dogs") /\ "cats" \in DOMAIN env
               /\ env["cats"] = "null")
           => /\ C10_About(2) # {}
              /\ C10_Count(2, C10_Negative) = 1
              /\ C10_Count(2, C10_Positive) = 0
              /\ C10_About(3) = {}

\* lines were derived for a pet with dogs = false, cats = null, no children
\* key, house_trained = false and special_needs = true
C10_Witness ==
    /\ messages.done
    /\ pet_in.environment = [k \in {"dogs", "cats"} |->
                                IF k = "dogs" THEN "false" ELSE "null"]
    /\ "house_trained" \in DOMAIN pet_in.attributes
    /\ pet_in.attributes["house_trained"] = "false"
    /\ "special_needs" \in DOMAIN pet_in.attributes
    /\ pet_in.attributes["special_needs"] = "true"
    /\ messages.lines = <<"no: Not recommended for homes with dogs",
                          "warn: Has special needs", "no: Not house-trained">>


-----------------------------------------------------------------------------
(* Directory Client: search_pets and get_pet_details *)

\* items per page (lines 557, 568, 569)
PageSize == 10
\* the records of the long listings beyond one page
ExtraAnimals == 1

\* a PetRecord, as far as the session looks into it: its id
Pet(n) == [id |-> n]

\* what the upstream may list: nothing, two records, and two listings of
\* more than a page that differ in their order
ShortListing == <<Pet(PageSize + 1), Pet(1)>>
LongListing == [i \in 1..(PageSize + ExtraAnimals) |-> Pet(i)]
SwappedListing ==
    [i \in 1..(PageSize + ExtraAnimals) |->
        IF i = 1 THEN Pet(PageSize + 1)
        ELSE IF i = PageSize + 1 THEN Pet(1) ELSE Pet(i)]
Listings == {<< >>, ShortListing, LongListing, SwappedListing}

\* answers of GET /animals: a RequestException, or a JSON object
SearchError == [status |-> "error", keys |-> {}, animals |-> << >>]
SearchResponses ==
    {SearchError,
     [status |-> "ok", keys |-> {}, animals |-> << >>],
     [status |-> "ok", keys |-> {"pagination"}, animals |-> << >>]}
    \cup {[status |-> "ok", keys |-> {"animals", "pagination"},
           animals |-> L] : L \in Listings}

\* answers of GET /animals/{id}: a RequestException (a 404 too), or the record
DetailError == [status |-> "error"]
DetailResponses == {DetailError, [status |-> "ok"]}

\* the return value None of search_pets
NoJson == [isNone |-> TRUE, keys |-> {}, animals |-> << >>]

\* a search that asks the upstream a second time when the first request fails
search_pets_RetriesOnce(c, t, o, d) ==
    LET tk == get_access_token(c, t, o) IN
    IF tk.ret = None
    THEN [cred |-> tk.cred, ret |-> NoJson,
          token_requests |-> tk.token_requests, data_requests |-> 0]
    ELSE [cred |-> tk.cred,
          ret |-> IF d.status = "ok"
                  THEN [isNone |-> FALSE, keys |-> d.keys,
                        animals |-> d.animals]
                  ELSE NoJson,
          token_requests |-> tk.token_requests,
          data_requests |-> IF d.status = "ok" THEN 1 ELSE 2]

\* lines 108-122
search_pets(c, t, o, d) ==
    LET tk == get_access_token(c, t, o) IN
    IF tk.ret = None
    THEN [cred |-> tk.cred, ret |-> NoJson,
          token_requests |-> tk.token_requests, data_requests |-> 0]
    ELSE [cred |-> tk.cred,
          ret |-> IF d.status = "ok"
                  THEN [isNone |-> FALSE, keys |-> d.keys,
                        animals |-> d.animals]
                  ELSE NoJson,
          token_requests |-> tk.token_requests, data_requests |-> 1]

\* lines 162-176; found = FALSE is the return value None
get_pet_details(c, t, pet_id, o, d) ==
    LET tk == get_access_token(c, t, o) IN
    IF tk.ret = None
    THEN [cred |-> tk.cred, found |-> FALSE, pet |-> Pet(0),
          token_requests |-> tk.token_requests, data_requests |-> 0]
    ELSE [cred |-> tk.cred, found |-> d.status = "ok",
          pet |-> IF d.status = "ok" THEN Pet(pet_id) ELSE Pet(0),
          token_requests |-> tk.token_requests, data_requests |-> 1]

\* the data answers worth drawing: one when no data request is made
SearchAnswers(c, t, o) ==
    IF get_access_token(c, t, o).ret = None
    THEN {SearchError} ELSE SearchResponses
DetailAnswers(c, t, o) ==
    IF get_access_token(c, t, o).ret = None
    THEN {DetailError} ELSE DetailResponses

-----------------------------------------------------------------------------
(* Session Store: what the handlers do to st.session_state *)

Sess == [search_results |-> search_results, selected_pet |-> selected_pet,
         page |-> page, favorites |-> favorites]

SetSess(s) ==
    /\ search_results' = s.search_results
    /\ selected_pet' = s.selected_pet
    /\ page' = s.page
    /\ favorites' = s.favorites

FavIds(favs) == {favs[i].id : i \in DOMAIN favs}

\* line 544: results and 'animals' in results
Accepted(json) == ~json.isNone /\ json.keys # {} /\ "animals" \in json.keys

\* lines 545-546
on_search_results(s, json) ==
    [s EXCEPT !.search_results = [cached |-> TRUE, animals |-> json.animals],
              !.page = 1]

\* a View Details handler that also goes back to the first page
on_view_details_ResetsPage(s, pet) ==
    [s EXCEPT !.selected_pet = pet.id, !.page = 1]

\* line 449
on_view_details(s, pet) == [s EXCEPT !.selected_pet = pet.id]

\* line 301
on_back(s) == [s EXCEPT !.selected_pet = 0]

\* an Add to Favorites on a card that does not look for the id
on_add_card_NoCheck(s, pet) ==
    [s EXCEPT !.favorites = Append(@, pet)]

\* lines 454-455
on_add_card(s, pet) ==
    IF pet.id \notin FavIds(s.favorites)
    THEN [s EXCEPT !.favorites = Append(@, pet)]
    ELSE s

\* lines 460 and 392
on_remove(s, pet) ==
    [s EXCEPT !.favorites = SelectSeq(@, LAMBDA p : p.id # pet.id)]

\* line 387
on_add_detail(s, pet) == [s EXCEPT !.favorites = Append(@, pet)]

-----------------------------------------------------------------------------
(* The result list of the Search tab (lines 552-573) *)

Min(a, b) == IF a <= b THEN a ELSE b

\* a Python slice s[a:b], a and b counted from 0 and not negative
PySlice(s, a, b) == SubSeq(s, a + 1, Min(b, Len(s)))

\* line 557
TotalPages(results) == (Len(results) + 9) \div 10

\* a page that starts at the page number times the page size
PageCards_StartsAtPage(results, pg) ==
    LET start_idx == pg * PageSize
        end_idx == Min(start_idx + PageSize, Len(results))
    IN PySlice(results, start_idx, end_idx)

\* lines 568-571
PageCards(results, pg) ==
    LET start_idx == (pg - 1) * PageSize
        end_idx == Min(start_idx + PageSize, Len(results))
    IN PySlice(results, start_idx, end_idx)

\* st.slider("Page", 1, total_pages, st.session_state.page) (line 563).  The
\* call has no key: Streamlit identifies the widget by its arguments, the
\* default value among them.  With the arguments of the slider w that is
\* already registered, the call returns w's value (the value the user just
\* moved it to, in the run that move triggers); with other arguments it
\* registers a new slider and returns the default.
PageSliderValue(w, total_pages, default, e) ==
    IF w.live /\ w.max = total_pages /\ w.def = default
    THEN IF e.ev = "slider" THEN e.id ELSE w.val
    ELSE default


-----------------------------------------------------------------------------
(* One run of the script (main, lines 465-587) *)

\* A run is given the event e that triggered it: e.ev names the widget
\* ("submit", "slider", "view", "add_card", "remove_card", "back",
\* "add_detail", "remove_detail"), "rerun" is the user asking for a rerun and
\* "none" the run st.rerun() asked for; e.tab is the tab of the widget and
\* e.id the pet of its key (the value chosen, for the slider).
\*
\* The run is taken stage by stage, each stage's result bound before the
\* next one reads it.

Event(ev, tab, id) == [ev |-> ev, tab |-> tab, id |-> id]

\* lines 511-549: the submitted form's search
FormStage(e, o, d) ==
    LET found == search_pets(Cred, now, o, d) IN
    IF e.ev # "submit"
    THEN [cred |-> Cred, sess |-> Sess, msg |-> "none",
          search |-> "none", returned |-> << >>]
    ELSE IF Accepted(found.ret)
    THEN [cred |-> found.cred, sess |-> on_search_results(Sess, found.ret),
          msg |-> "success", search |-> "ok",
          returned |-> found.ret.animals]
    ELSE [cred |-> found.cred, sess |-> Sess, msg |-> "error",
          search |-> IF found.ret.isNone THEN "error" ELSE "rejected",
          returned |-> << >>]

\* lines 552-571: the result list, its page slider w and the page's cards
ResultListStage(e, s, w) ==
    LET shown == s.search_results.cached
        results == s.search_results.animals
        total_pages == IF shown THEN TotalPages(results) ELSE 0
        has_slider == shown /\ total_pages > 1
        v == IF has_slider
             THEN PageSliderValue(w, total_pages, s.page, e)
             ELSE s.page
    IN [sess |-> [s EXCEPT !.page = v],
        shown |-> shown,
        total_pages |-> total_pages,
        has_slider |-> has_slider,
        moved |-> /\ has_slider /\ w.live /\ w.max = total_pages
                  /\ w.def = s.page /\ e.ev = "slider",
        slider |-> IF has_slider
                   THEN [live |-> TRUE, max |-> total_pages,
                         def |-> s.page, val |-> v]
                   ELSE NoSlider,
        cards |-> IF shown THEN PageCards(results, v) ELSE << >>]

\* lines 446-457, for the cards of tab 1: the button of e, if it is there
CardButtons(e, s, cards) ==
    LET hit == /\ e.tab = 1
               /\ e.ev \in {"view", "add_card"}
               /\ \E i \in DOMAIN cards : cards[i].id = e.id
        added == on_add_card(s, Pet(e.id))
    IN IF hit /\ e.ev = "view"
       THEN [sess |-> on_view_details(s, Pet(e.id)), stop |-> TRUE,
             hit |-> TRUE]
       ELSE IF hit
       THEN [sess |-> added, stop |-> added.favorites # s.favorites,
             hit |-> TRUE]
       ELSE [sess |-> s, stop |-> FALSE, hit |-> FALSE]

\* lines 578-587 with no pet selected: the favorites' cards (lines 446-450
\* and 458-462)
FavoriteButtons(e, s) ==
    LET hit == /\ e.tab = 2
               /\ e.ev \in {"view", "remove_card"}
               /\ e.id \in FavIds(s.favorites)
    IN IF hit /\ e.ev = "view"
       THEN [sess |-> on_view_details(s, Pet(e.id)), stop |-> TRUE,
             hit |-> TRUE]
       ELSE IF hit
       THEN [sess |-> on_remove(s, Pet(e.id)), stop |-> TRUE, hit |-> TRUE]
       ELSE [sess |-> s, stop |-> FALSE, hit |-> FALSE]

\* a Favorites tab that looks up its first favorite, not the selection
DetailPetId_FirstFavorite(s, tab) ==
    IF tab = 2 THEN s.favorites[1].id ELSE s.selected_pet

\* the pet_id handed to display_pet_details in tab 1 (line 476) and in tab 2
\* (line 583)
DetailPetId(s, tab) == s.selected_pet

\* display_pet_details(selected_pet, tab_id = tab) (lines 293-394) with the
\* session s and the credential c
DetailTab(c, s, tab, e, o, d) ==
    LET got == get_pet_details(c, now, DetailPetId(s, tab), o, d)
        \* line 384
        is_favorite == got.pet.id \in FavIds(s.favorites)
        mine == got.found /\ e.tab = tab
        back == mine /\ e.ev = "back"
        add == mine /\ e.ev = "add_detail" /\ ~is_favorite
        remove == mine /\ e.ev = "remove_detail" /\ is_favorite
    IN [cred |-> got.cred,
        sess |-> IF back THEN on_back(s)
                 ELSE IF add THEN on_add_detail(s, got.pet)
                 ELSE IF remove THEN on_remove(s, got.pet)
                 ELSE s,
        stop |-> back \/ add \/ remove,
        shown |-> IF got.found THEN "detail" ELSE "failed",
        pet_id |-> IF got.found THEN got.pet.id ELSE 0,
        fav |-> IF ~got.found THEN "none"
                ELSE IF is_favorite THEN "remove" ELSE "add"]

\* the result of the run with no pet selected
ListRunResult(e, a, b, c, f) ==
    [cred |-> a.cred,
     sess |-> f.sess,
     slider |-> IF f.stop /\ ~b.has_slider THEN page_slider ELSE b.slider,
     stop |-> f.stop,
     view |-> [tab1 |-> "list", msg |-> a.msg, results_shown |-> b.shown,
               total_pages |-> b.total_pages, cards |-> b.cards,
               fav1 |-> "none",
               tab2 |-> IF f.sess.favorites = << >> THEN "empty" ELSE "list",
               fav2 |-> "none", id1 |-> 0, id2 |-> 0],
     fired |-> e.ev = "submit" \/ b.moved \/ c.hit \/ f.hit,
     search |-> a.search,
     returned |-> a.returned]

\* the result of the run with a pet selected: tab 1, and tab 2 if the run
\* gets there and there are favorites (t2.shown = "empty" if there are none)
DetailRunResult(t1, t2) ==
    [cred |-> t2.cred,
     sess |-> t2.sess,
     slider |-> page_slider,
     stop |-> t2.stop,
     view |-> [tab1 |-> t1.shown, msg |-> "none", results_shown |-> FALSE,
               total_pages |-> 0, cards |-> << >>, fav1 |-> t1.fav,
               tab2 |-> t2.shown, fav2 |-> t2.fav,
               id1 |-> t1.pet_id, id2 |-> t2.pet_id],
     fired |-> t2.stop,
     search |-> "none",
     returned |-> << >>]

\* line 578-579: tab 2 with no favorites
NoFavoritesTab(t1) ==
    [t1 EXCEPT !.shown = "empty", !.fav = "none", !.pet_id = 0]

\* the end of a run: a run that st.rerun() stopped leaves the screen to the
\* run it asked for and keeps the widget states; a complete run forgets the
\* widgets it did not draw
Finish(e, r) ==
    /\ SetCred(r.cred)
    /\ SetSess(r.sess)
    /\ rerun_pending' = r.stop
    /\ page_slider' = IF r.stop \/ selected_pet = 0 THEN r.slider ELSE NoSlider
    /\ view' = IF r.stop THEN view ELSE r.view
    /\ last' = IF e.ev = "none" THEN last
               ELSE [ev |-> e.ev, tab |-> e.tab, id |-> e.id,
                     fired |-> r.fired, stopped |-> r.stop,
                     search |-> r.search, returned |-> r.returned]
    /\ prior' = IF e.ev = "view" /\ r.fired
                THEN [search_results |-> search_results, page |-> page,
                      total_pages |-> view.total_pages,
                      cards |-> view.cards]
                ELSE IF e.ev = "none" \/ selected_pet # 0 THEN prior
                ELSE NoPrior
    /\ UNCHANGED <<call, form, params, pet_in, messages>>
    /\ UNCHANGED renderVars
    /\ UNCHANGED envVars

\* lines 477-573 and 575-587
ListRun(e) ==
    \E o \in (IF e.ev = "submit" THEN TokenAnswers(Cred, now)
              ELSE {TokenFailure}) :
    \E d \in (IF e.ev = "submit" THEN SearchAnswers(Cred, now, o)
              ELSE {SearchError}) :
    \E a \in {FormStage(e, o, d)} :
    \E b \in {ResultListStage(e, a.sess, page_slider)} :
    \E c \in {CardButtons(e, b.sess, b.cards)} :
    \E f \in {IF c.stop THEN c ELSE FavoriteButtons(e, c.sess)} :
    \E r \in {ListRunResult(e, a, b, c, f)} :
        Finish(e, r)

\* lines 475-476 and 582-583
DetailRun(e) ==
    \E o1 \in TokenAnswers(Cred, now) :
    \E d1 \in DetailAnswers(Cred, now, o1) :
    \E t1 \in {DetailTab(Cred, Sess, 1, e, o1, d1)} :
        IF t1.stop \/ favorites = << >>
        THEN \E r \in {DetailRunResult(t1, NoFavoritesTab(t1))} : Finish(e, r)
        ELSE \E o2 \in TokenAnswers(t1.cred, now) :
             \E d2 \in DetailAnswers(t1.cred, now, o2) :
             \E t2 \in {DetailTab(t1.cred, Sess, 2, e, o2, d2)} :
             \E r \in {DetailRunResult(t1, t2)} :
                 Finish(e, r)

\* lines 473-477
Run(e) == IF selected_pet # 0 THEN DetailRun(e) ELSE ListRun(e)

-----------------------------------------------------------------------------
(* The user's actions: each needs its widget on the screen *)

\* the cards the model clicks: the first card of the page, any favorite
ClickableCards(tab) ==
    IF tab = 1
    THEN (IF view.tab1 = "list" /\ view.cards # << >>
          THEN {view.cards[1]} ELSE {})
    ELSE (IF view.tab2 = "list"
          THEN {favorites[i] : i \in DOMAIN favorites} ELSE {})

Submit ==
    /\ ~rerun_pending
    /\ view.tab1 = "list"
    /\ Run(Event("submit", 1, 0))

MovePageSlider ==
    /\ ~rerun_pending
    /\ page_slider.live
    /\ \E v \in 1..page_slider.max :
        /\ v # page_slider.val
        /\ Run(Event("slider", 1, v))

ViewDetails ==
    /\ ~rerun_pending
    /\ \E tab \in {1, 2} : \E pet \in ClickableCards(tab) :
        Run(Event("view", tab, pet.id))

AddToFavoritesCard ==
    /\ ~rerun_pending
    /\ \E pet \in ClickableCards(1) : Run(Event("add_card", 1, pet.id))

RemoveFromFavoritesCard ==
    /\ ~rerun_pending
    /\ \E pet \in ClickableCards(2) : Run(Event("remove_card", 2, pet.id))

Back ==
    /\ ~rerun_pending
    /\ \E tab \in {1, 2} :
        /\ (IF tab = 1 THEN view.tab1 ELSE view.tab2) = "detail"
        /\ Run(Event("back", tab, selected_pet))

AddToFavoritesDetail ==
    /\ ~rerun_pending
    /\ \E tab \in {1, 2} :
        /\ (IF tab = 1 THEN view.fav1 ELSE view.fav2) = "add"
        /\ Run(Event("add_detail", tab, selected_pet))

RemoveFromFavoritesDetail ==
    /\ ~rerun_pending
    /\ \E tab \in {1, 2} :
        /\ (IF tab = 1 THEN view.fav1 ELSE view.fav2) = "remove"
        /\ Run(Event("remove_detail", tab, selected_pet))

\* the user asks for a rerun (the app's menu)
Rerun ==
    /\ ~rerun_pending
    /\ Run(Event("rerun", 0, 0))

\* the run st.rerun() asked for
RerunRequested ==
    /\ rerun_pending
    /\ Run(Event("none", 0, 0))

Init == InitEnv /\ InitCred /\ InitSession /\ InitPure /\ InitRender

\* The session's runs are taken at one reading of the clock (the clock runs
\* in SpecToken): a token issued with expires_in = Buffer has expired when
\* the next fetch asks for it, one issued with more is still valid, so every
\* fetch is made both with a cached token and with a token exchange.
Next ==
    \/ Submit
    \/ MovePageSlider
    \/ ViewDetails
    \/ AddToFavoritesCard
    \/ RemoveFromFavoritesCard
    \/ Back
    \/ AddToFavoritesDetail
    \/ RemoveFromFavoritesDetail
    \/ Rerun
    \/ RerunRequested

Spec == Init /\ [][Next]_vars

-----------------------------------------------------------------------------
(* Pagination of the result list *)

\* the least k with k * 10 >= n
C4_Ceil(n) == CHOOSE k \in 0..n : k * 10 >= n /\ (k - 1) * 10 < n

\* C4: on every rendered Search tab with a cached ResultSet of size n and
\* current page p, total_pages is ceil(n/10) and the cards are exactly the
\* records at the indices [(p-1)*10, min(p*10, n)) of the ResultSet, in the
\* ResultSet's order.
C4_Pagination ==
    (~rerun_pending /\ view.tab1 = "list" /\ search_results.cached) =>
        LET results == search_results.animals
            n == Len(results)
            lo == (page - 1) * 10
            hi == IF page * 10 <= n THEN page * 10 ELSE n
        IN /\ view.results_shown
           /\ view.total_pages = C4_Ceil(n)
           /\ Len(view.cards) = (IF hi > lo THEN hi - lo ELSE 0)
           /\ \A i \in 1..Len(view.cards) : view.cards[i] = results[lo + i]

\* the second page of a ResultSet of more than ten records is on the screen
C4_Witness ==
    /\ ~rerun_pending
    /\ view.tab1 = "list"
    /\ search_results.cached
    /\ Len(search_results.animals) > 10
    /\ page = 2
    /\ view.cards # << >>
    /\ view.cards[1] = search_results.animals[11]

-----------------------------------------------------------------------------
(* A search that sets a new ResultSet *)

\* C5: after any sequence of searches and page selections, the run of a
\* search that sets a new ResultSet ends with current_page = 1 and with the
\* ResultSet being exactly the records that search returned, in upstream
\* order.
C5_SearchResetsPage ==
    (last.ev = "submit" /\ last.search = "ok") =>
        /\ page = 1
        /\ search_results = [cached |-> TRUE, animals |-> last.returned]

-----------------------------------------------------------------------------
(* The Search tab after the form is submitted *)

\* C6: starting from the form with no cached ResultSet, a submitted search
\* that fails or succeeds with zero records caches no ResultSet, shows the
\* error message and renders no result list; the tab shows results only
\* after a search that succeeded with at least one record.
C6_ResultsOnlyOnNonEmptySuccess ==
    [][(/\ ~rerun_pending
        /\ selected_pet = 0
        /\ ~search_results.cached
        /\ last'.ev = "submit"
        /\ (last'.search # "ok" \/ last'.returned = << >>))
       => (/\ ~search_results'.cached
           /\ view'.msg = "error"
           /\ ~view'.results_shown)]_vars

-----------------------------------------------------------------------------
(* FavoritesList *)

C7_NoDuplicates(favs) ==
    \A i, j \in DOMAIN favs : favs[i].id = favs[j].id => i = j

\* C7: whatever add and remove actions are issued from result cards,
\* favorites cards and the detail view of either tab, FavoritesList never
\* holds two records with the same id, and an add action for a record whose
\* id is already present leaves FavoritesList unchanged in size and order.
C7_FavoritesDeduplicated ==
    [][/\ C7_NoDuplicates(favorites')
       /\ (/\ ~rerun_pending
           /\ last'.ev \in {"add_card", "add_detail"}
           /\ last'.id \in FavIds(favorites))
          => favorites' = favorites]_vars

\* Add to Favorites was clicked on the result card of a pet that is a
\* favorite already, with another favorite before it
C7_Witness ==
    /\ last.ev = "add_card"
    /\ last.fired
    /\ ~last.stopped
    /\ Len(favorites) = 2
    /\ favorites[2].id = last.id

-----------------------------------------------------------------------------
(* View Details and back *)

\* C8: View Details sets the selection to the card's id and leaves ResultSet,
\* current_page and FavoritesList unchanged; back clears the selection and
\* leaves them unchanged; the render after back shows the list view the
\* selection was made from: same ResultSet, same page, same cards.
C8_ViewDetailsAndBack ==
    [][/\ (~rerun_pending /\ last'.ev = "view" /\ last'.fired)
          => /\ selected_pet' = last'.id
             /\ UNCHANGED <<search_results, page, favorites>>
       /\ (~rerun_pending /\ last'.ev = "back" /\ last'.fired)
          => /\ selected_pet' = 0
             /\ UNCHANGED <<search_results, page, favorites>>
       /\ (rerun_pending /\ last.ev = "back")
          => /\ ~rerun_pending'
             /\ view'.tab1 = "list"
             /\ search_results' = prior.search_results
             /\ page' = prior.page
             /\ view'.results_shown = prior.search_results.cached
             /\ view'.total_pages = prior.total_pages
             /\ view'.cards = prior.cards]_vars

\* the list is back on its second page after View Details and back
C8_Witness ==
    /\ last.ev = "back"
    /\ last.fired
    /\ ~rerun_pending
    /\ selected_pet = 0
    /\ view.tab1 = "list"
    /\ page = 2
    /\ view.cards # << >>
    /\ view.cards = prior.cards

-----------------------------------------------------------------------------
(* A detail lookup that fails *)

\* C9: when the detail lookup of the selected record fails, the prior view
\* is preserved: the screen shows the result list again or offers the back
\* action that leads to it.
C9_FailedLookupKeepsPriorView ==
    (selected_pet # 0 /\ ~rerun_pending /\ view.tab1 = "failed") =>
        (view.results_shown \/ view.tab2 = "detail")

-----------------------------------------------------------------------------
(* Result Presenter: the description of a card and of the detail view *)

\* the characters a list card shows (line 444) and the detail view shows
\* (line 358)
CardLimit == 300
DetailLimit == 500

\* the descriptions tried are as long as a limit, give or take NearLimit
NearLimit == 5

\* 520 characters is the length of the specification's scenario
DescriptionLengths ==
    {0, 520}
    \cup ((CardLimit - NearLimit)..(CardLimit + NearLimit))
    \cup ((DetailLimit - NearLimit)..(DetailLimit + NearLimit))

\* a description's characters: position i holds i modulo the alphabet's size
Alphabets == {2, 3}

\* pet['description']: null, or a string
Descriptions ==
    {NoDescription}
    \cup {[given |-> "str", text |-> [i \in 1..L |-> i % a]] :
            L \in DescriptionLengths, a \in Alphabets}

\* f"{text[:limit]}{'...' if len(text) > limit else ''}"
Truncated(text, limit) ==
    [rendered |-> TRUE, text |-> PySlice(text, 0, limit),
     marker |-> Len(text) > limit]

\* if pet['description']: false for None and for ""
NoDescriptionShown == [rendered |-> FALSE, text |-> << >>, marker |-> FALSE]

\* the card of lines 179-244, which the definition of line 397 replaces
card_description_FirstDefinition(d) ==
    IF d.given = "str" /\ d.text # << >>
    THEN Truncated(d.text, DetailLimit)
    ELSE NoDescriptionShown

\* lines 443-444
card_description(d) ==
    IF d.given = "str" /\ d.text # << >>
    THEN Truncated(d.text, CardLimit)
    ELSE NoDescriptionShown

\* lines 354-358
detail_description(d) ==
    IF d.given = "str" /\ d.text # << >>
    THEN Truncated(d.text, DetailLimit)
    ELSE NoDescriptionShown

InitDescription ==
    /\ InitEnvFixed /\ InitCred /\ InitSession /\ InitPure
    /\ description \in Descriptions
    /\ about = NoAbout
    /\ record = NoRecord
    /\ outcome = NoOutcome

Render(where, r) ==
    /\ about' = [done |-> TRUE, where |-> where, rendered |-> r.rendered,
                 text |-> r.text, marker |-> r.marker]
    /\ UNCHANGED <<description, record, outcome, call>>
    /\ UNCHANGED envVars
    /\ UNCHANGED credVars
    /\ UNCHANGED sessionVars
    /\ UNCHANGED pureVars

\* display_pet_card renders the record's description
RenderCardDescription ==
    /\ ~about.done
    /\ Render("card", card_description(description))

\* display_pet_details renders the record's description
RenderDetailDescription ==
    /\ ~about.done
    /\ Render("detail", detail_description(description))

NextDescription == RenderCardDescription \/ RenderDetailDescription

SpecDescription == InitDescription /\ [][NextDescription]_vars

\* C11: for a description of length L, the list card shows its first
\* min(L, 300) characters and the truncation marker iff L > 300, the detail
\* view its first min(L, 500) characters and the marker iff L > 500; a
\* description of 520 characters shows as 300 characters and the marker on
\* the card and as 500 characters and the marker in the detail view.
C11_DescriptionTruncation ==
    about.done =>
        LET L == Len(description.text)
            budget == IF about.where = "card" THEN 300 ELSE 500
            n == IF L <= budget THEN L ELSE budget
        IN /\ about.where \in {"card", "detail"}
           /\ Len(about.text) = n
           /\ \A i \in 1..n : about.text[i] = description.text[i]
           /\ about.marker <=> (L > budget)
           /\ (L = 520) => (Len(about.text) = budget /\ about.marker)

\* the card of a description of 520 characters
C11_Witness ==
    /\ about.done
    /\ about.where = "card"
    /\ Len(description.text) = 520
    /\ Len(about.text) = 300
    /\ about.marker

-----------------------------------------------------------------------------
(* Result Presenter: a PetRecord with optional sub-fields missing *)

\* How a record carries a sub-field: "absent" is a missing key, "null" the
\* JSON null, "present" a value.  breeds and colors are objects: "full" has
\* every entry, "partial" only its primary entry.  location tells whether the
\* record has a 'location' key (line 438 asks).  Name, status, age, gender,
\* size, type, id, organization_id and url are there.
Presence == {"absent", "null", "present"}
Entries == {"absent", "null", "partial", "full"}
Records ==
    [given : {TRUE}, photos : Presence, breeds : Entries, colors : Entries,
     description : Presence, environment : Presence, attributes : Presence,
     contact : Presence, address : Presence, location : BOOLEAN]

\* pet[k]
KeyAccess(v) == IF v = "absent" THEN "KeyError" ELSE "none"

\* pet[k][entry] and `entry in pet[k]`, for an entry the object has
SubAccess(v) ==
    IF v = "absent" THEN "KeyError"
    ELSE IF v = "null" THEN "TypeError"
    ELSE "none"

\* pet[k]['primary'] and then pet[k]['secondary']: the primary entry is a
\* non-empty string, so the second lookup is made
EntryAccess(v) ==
    IF v = "absent" THEN "KeyError"
    ELSE IF v = "null" THEN "TypeError"
    ELSE IF v = "partial" THEN "KeyError"
    ELSE "none"

Step(at, raised) == [at |-> at, raised |-> raised]
Skipped(at) == Step(at, "none")

\* the first lookup that raises, in the order the code makes them
FirstRaised(steps) ==
    LET bad == {i \in DOMAIN steps : steps[i].raised # "none"} IN
    IF bad = {} THEN Step("none", "none")
    ELSE steps[CHOOSE i \in bad : \A j \in bad : i <= j]

\* lines 247-287: pet['environment'] at line 251, pet['attributes'] at 272
compatibility_lookups(r) ==
    <<Step("environment", SubAccess(r.environment)),
      Step("attributes", KeyAccess(r.attributes))>>

\* lines 397-462: photos at line 401, breeds at 426-430, colors at 434-435,
\* the address at 438 if the record has a 'location' key, the description
\* at 443
card_lookups(r) ==
    <<Step("photos", KeyAccess(r.photos)),
      Step("breeds", EntryAccess(r.breeds)),
      Step("colors", EntryAccess(r.colors)),
      IF r.location
      THEN Step("contact", SubAccess(r.contact)) ELSE Skipped("contact"),
      IF r.location /\ r.contact = "present"
      THEN Step("address", SubAccess(r.address)) ELSE Skipped("address"),
      Step("description", KeyAccess(r.description))>>

\* lines 304-381: photos at line 311, breeds at 325-328, colors at 340,
\* get_compatibility_message at 349, the description at 354, the contact at
\* 369-371 and its address at 373
detail_lookups(r) ==
    <<Step("photos", KeyAccess(r.photos)),
      Step("breeds", EntryAccess(r.breeds)),
      Step("colors", EntryAccess(r.colors))>>
    \o compatibility_lookups(r)
    \o <<Step("description", KeyAccess(r.description)),
         Step("contact", SubAccess(r.contact)),
         IF r.contact = "present"
         THEN Step("address", SubAccess(r.address)) ELSE Skipped("address")>>

InitRecord ==
    /\ InitEnvFixed /\ InitCred /\ InitSession /\ InitPure
    /\ description = NoDescription
    /\ about = NoAbout
    /\ record \in Records
    /\ outcome = NoOutcome

\* the function either returns or lets the exception of a lookup out: none
\* of the three has a try block
Rendered(by, steps) ==
    /\ outcome' = [done |-> TRUE, by |-> by,
                   raised |-> FirstRaised(steps).raised,
                   at |-> FirstRaised(steps).at]
    /\ UNCHANGED <<description, about, record, call>>
    /\ UNCHANGED envVars
    /\ UNCHANGED credVars
    /\ UNCHANGED sessionVars
    /\ UNCHANGED pureVars

DisplayPetCard ==
    /\ ~outcome.done
    /\ Rendered("display_pet_card", card_lookups(record))

DisplayPetDetails ==
    /\ ~outcome.done
    /\ Rendered("display_pet_details", detail_lookups(record))

GetCompatibilityMessage ==
    /\ ~outcome.done
    /\ Rendered("get_compatibility_message", compatibility_lookups(record))

NextRecord == DisplayPetCard \/ DisplayPetDetails \/ GetCompatibilityMessage

SpecRecord == InitRecord /\ [][NextRecord]_vars

\* C12: rendering a card or a detail view, and deriving the compatibility
\* statements, of a PetRecord that misses optional sub-fields completes
\* without raising an error.
C12_MissingFieldsDoNotRaise == outcome.done => outcome.raised = "none"

-----------------------------------------------------------------------------
(* Directory Client: direct calls of the four read operations *)

\* answers of GET /types/{type}/breeds and of GET /organizations: a
\* RequestException, or the list (of breed names, of (id, name) pairs)
ListError == [status |-> "error", items |-> << >>]
BreedResponses ==
    {ListError, [status |-> "ok", items |-> << >>],
     [status |-> "ok", items |-> <<"Beagle", "Poodle">>]}
OrganizationResponses ==
    {ListError, [status |-> "ok", items |-> << >>],
     [status |-> "ok", items |-> << <<"NY1", "Shelter">> >>]}

\* lines 127-141
get_breeds(c, t, o, d) ==
    LET tk == get_access_token(c, t, o) IN
    IF tk.ret = None
    THEN [cred |-> tk.cred, ret |-> << >>,
          token_requests |-> tk.token_requests, data_requests |-> 0]
    ELSE [cred |-> tk.cred,
          ret |-> IF d.status = "ok" THEN d.items ELSE << >>,
          token_requests |-> tk.token_requests, data_requests |-> 1]

\* lines 144-159
get_organizations(c, t, o, d) ==
    LET tk == get_access_token(c, t, o) IN
    IF tk.ret = None
    THEN [cred |-> tk.cred, ret |-> << >>,
          token_requests |-> tk.token_requests, data_requests |-> 0]
    ELSE [cred |-> tk.cred,
          ret |-> IF d.status = "ok" THEN d.items ELSE << >>,
          token_requests |-> tk.token_requests, data_requests |-> 1]

\* the data answers worth drawing: one when no data request is made
ListAnswers(c, t, o, responses) ==
    IF get_access_token(c, t, o).ret = None THEN {ListError} ELSE responses

\* the ids asked for
PetIds == {1, PageSize + 1}

\* What a call did: the token get_access_token gave it, the upstream's
\* answer to its data request ("none" if none was made), and what it
\* returned: "None", "json", "animal", or "list" with the list in items.
Called(fn, r, o, d, ret, items) ==
    /\ SetCred(r.cred)
    /\ call' = [fn |-> fn, ret |-> ret, items |-> items,
                token_requests |-> r.token_requests,
                data_requests |-> r.data_requests,
                token |-> get_access_token(Cred, now, o).ret,
                answer |-> IF r.data_requests = 0 THEN "none" ELSE d.status]
    /\ UNCHANGED envVars
    /\ UNCHANGED sessionVars
    /\ UNCHANGED pureVars
    /\ UNCHANGED renderVars

CallSearchPets ==
    \E o \in TokenAnswers(Cred, now) :
    \E d \in SearchAnswers(Cred, now, o) :
    \E r \in {search_pets(Cred, now, o, d)} :
        Called("search_pets", r, o, d,
               IF r.ret.isNone THEN "None" ELSE "json", r.ret.animals)

CallGetPetDetails ==
    \E pet_id \in PetIds :
    \E o \in TokenAnswers(Cred, now) :
    \E d \in DetailAnswers(Cred, now, o) :
    \E r \in {get_pet_details(Cred, now, pet_id, o, d)} :
        Called("get_pet_details", r, o, d,
               IF r.found THEN "animal" ELSE "None",
               IF r.found THEN <<r.pet>> ELSE << >>)

CallGetBreeds ==
    \E o \in TokenAnswers(Cred, now) :
    \E d \in ListAnswers(Cred, now, o, BreedResponses) :
    \E r \in {get_breeds(Cred, now, o, d)} :
        Called("get_breeds", r, o, d, "list", r.ret)

CallGetOrganizations ==
    \E o \in TokenAnswers(Cred, now) :
    \E d \in ListAnswers(Cred, now, o, OrganizationResponses) :
    \E r \in {get_organizations(Cred, now, o, d)} :
        Called("get_organizations", r, o, d, "list", r.ret)

InitClient == InitEnv /\ InitCred /\ InitSession /\ InitPure /\ InitRender

NextClient ==
    \/ Tick
    \/ CallSearchPets
    \/ CallGetPetDetails
    \/ CallGetBreeds
    \/ CallGetOrganizations

SpecClient == InitClient /\ [][NextClient]_vars

C13_ClientFunctions ==
    {"search_pets", "get_pet_details", "get_breeds", "get_organizations"}

\* the call of this step failed: it got no token, or its data request failed
C13_Failed == call'.token = None \/ call'.answer = "error"

\* the empty or absent result: None of search_pets and get_pet_details, the
\* empty list of get_breeds and get_organizations
C13_EmptyResult ==
    IF call'.fn \in {"search_pets", "get_pet_details"}
    THEN call'.ret = "None"
    ELSE call'.ret = "list" /\ call'.items = << >>

\* what every call does, whatever the statement says of the credential
C13_Requests ==
    /\ call'.data_requests <= 1
    /\ call'.token_requests <= 1
    /\ call'.token = None => call'.data_requests = 0
    /\ call'.data_requests = 1 => call'.token # None
    /\ ((access_token = None \/ now >= token_expires)
            /\ (api_key = None \/ api_secret = None))
          => /\ call'.token = None
             /\ call'.token_requests = 0
             /\ call'.data_requests = 0
    /\ C13_Failed =>
          /\ C13_EmptyResult
          /\ UNCHANGED <<search_results, page, selected_pet, favorites>>

\* C13 as stated: every call of search_pets, get_pet_details, get_breeds and
\* get_organizations issues at most one data request and none without a
\* token (nor a token request when a secret is missing), and in every failure
\* case returns the empty or absent result and leaves the cached credential,
\* ResultSet, current_page, selection and FavoritesList unchanged.
C13_FailureLeavesCredential ==
    [][call'.fn \in C13_ClientFunctions =>
          /\ C13_Requests
          /\ C13_Failed => UNCHANGED <<access_token, token_expires>>]_vars

\* C13, amended: as stated, except that a failed call leaves the cached
\* credential unchanged only if it made no successful token exchange; the
\* call whose token exchange succeeded and whose data request then failed
\* has cached the fresh token.
C13_AtMostOneRequestNoRetry ==
    [][call'.fn \in C13_ClientFunctions =>
          /\ C13_Requests
          /\ C13_Failed =>
                \/ UNCHANGED <<access_token, token_expires>>
                \/ /\ call'.token_requests = 1
                   /\ call'.token # None
                   /\ call'.answer = "error"
                   /\ access_token' = call'.token
                   /\ token_issued_at' = now]_vars

\* a search refreshed the token and its data request then failed
C13_Witness ==
    /\ call.fn = "search_pets"
    /\ call.token_requests = 1
    /\ call.data_requests = 1
    /\ call.answer = "error"
    /\ call.ret = "None"
    /\ access_token = call.token

-----------------------------------------------------------------------------
(* The selection and the two tabs *)

\* C14 as stated: in every state with a selection set the Search tab renders
\* the detail view of that id and, when FavoritesList is not empty, so does
\* the Favorites tab, which renders its Empty state when FavoritesList is
\* empty.
C14_DetailInBothTabs ==
    (selected_pet # 0 /\ ~rerun_pending) =>
        /\ view.tab1 = "detail"
        /\ view.id1 = selected_pet
        /\ favorites # << >> => (view.tab2 = "detail" /\ view.id2 = selected_pet)
        /\ favorites = << >> => view.tab2 = "empty"

\* what display_pet_details puts in a tab for the selection: the detail view
\* of that id, or the message of a lookup that failed
C14_DetailOrFailure(shown, id) ==
    \/ shown = "detail" /\ id = selected_pet'
    \/ shown = "failed" /\ id = 0

\* C14, amended: the selection is one session value shared by both tabs.  In
\* every rendered state with a selection set, the Search tab shows
\* display_pet_details of that id, which is the detail view of that id or,
\* when the lookup failed, its error message, never the list; with a
\* non-empty FavoritesList the Favorites tab shows display_pet_details of the
\* same id, looked up on its own, whether or not the id is a favorite; with
\* an empty FavoritesList it shows its Empty state.  After a back action in
\* either tab the next run shows both tabs' list views.
C14_SelectionShared ==
    [][/\ (selected_pet' # 0 /\ ~rerun_pending') =>
            /\ C14_DetailOrFailure(view'.tab1, view'.id1)
            /\ favorites' # << >> =>
                  C14_DetailOrFailure(view'.tab2, view'.id2)
            /\ favorites' = << >> => view'.tab2 = "empty"
       /\ (rerun_pending /\ last.ev = "back") =>
            /\ selected_pet' = 0
            /\ ~rerun_pending'
            /\ view'.tab1 = "list"
            /\ view'.tab2 = (IF favorites' = << >> THEN "empty" ELSE "list")]_vars

\* both tabs show the detail view of a selected pet that is no favorite
C14_Witness ==
    /\ selected_pet # 0
    /\ ~rerun_pending
    /\ favorites # << >>
    /\ selected_pet \notin FavIds(favorites)
    /\ view.tab1 = "detail"
    /\ view.id1 = selected_pet
    /\ view.tab2 = "detail"
    /\ view.id2 = selected_pet

=============================================================================
